---- MODULE Spec2Model ----
(***************************************************************************)
(* rippify (src/main.rs): locating input references, resolving them into   *)
(* a set of track ids, selecting a downloadable track record per id,       *)
(* processing each track, and rewriting the comment header of an ogg       *)
(* container.  Each part of main.rs is a group of actions with its own     *)
(* specification; the variables of the other parts stay at their idle      *)
(* values.                                                                 *)
(***************************************************************************)
EXTENDS Integers, Sequences, FiniteSets, TLC

VARIABLES
    \* get_track_from_id
    selPc,          \* "idle" | "walk" | "done" | "bound" (model queue bound hit)
    start_id,       \* the id the walk was asked for
    track_ids,      \* the VecDeque of line 472
    catalog,        \* track records the catalog has returned so far (id -> record)
    selResult,      \* <<>> while walking, else <<result>>
    fetchCount,     \* how often Track::get was called per id in this call (saturating)
    \* main, lines 78-104: the resolution loop
    resPc,          \* "idle" | "run" | "done" | "exit" (no tracks: proc::exit(0))
    input_resources,\* the references located from the input lines
    resPos,         \* index of the next reference of the for loop of line 80
    input_tracks,   \* the HashSet of line 78, in iteration order
    warnings,       \* the references whose warning of lines 84-90 was printed
    resolved,       \* what res.get_tracks returned, one entry per reference handled
    \* main, lines 52-76: the input lines
    locPc,          \* "idle" | "run" | "done" | "panic" (the run aborted)
    cur_line,       \* the input line handled last
    located,        \* what get_resource_from_line made of it
    skipped,        \* number of "unrecognized input" warnings printed
    \* main, lines 106-264: the processing loop
    procPc,         \* "idle" | "next" | "selecting" | "download" | "tags" | "write"
                    \* | "done" | "panic" (the run aborted)
    procPos,        \* index of the next track of the for loop of line 109
    num_completed,
    num_existing,
    outcomes,       \* per track handled: "new" | "existing" | "failed", as printed
    \* replace_header_comment
    rwPc,           \* "idle" | "loop" | "done"
    comment_header, \* the lhr::CommentHeader to write
    in_packets,     \* the packets reader.read_packet has returned so far
    out_packets,    \* the packets handed to writer.write_packet so far
    overwrote_header,
    rwResult,       \* <<>> while in the loop, else <<result>>
    \* make_header_comment, and lewton's read_header_comment on what it made
    tagPc,          \* "idle" | "make" | "read" | "done"
    tag_header,     \* the lhr::CommentHeader serialized
    tag_packet,     \* <<>>, else <<what make_header_comment returned>>
    tag_read        \* <<>>, else <<what read_header_comment returned>>

selVars == <<selPc, start_id, track_ids, catalog, selResult, fetchCount>>
resVars == <<resPc, input_resources, resPos, input_tracks, warnings, resolved>>
rwVars == <<rwPc, comment_header, in_packets, out_packets, overwrote_header, rwResult>>
locVars == <<locPc, cur_line, located, skipped>>
procVars == <<procPc, procPos, num_completed, num_existing, outcomes>>
tagVars == <<tagPc, tag_header, tag_packet, tag_read>>
vars == <<selVars, resVars, rwVars, locVars, procVars, tagVars>>

\* ------------------------------------------------------------------ helpers
Range(s) == {s[i] : i \in 1..Len(s)}

RECURSIVE SeqsUpTo(_, _)
\* every sequence over S of length at most n
SeqsUpTo(S, n) ==
    IF n = 0 THEN {<<>>}
    ELSE LET shorter == SeqsUpTo(S, n - 1)
         IN  shorter \cup {Append(s, x) : s \in {t \in shorter : Len(t) = n - 1}, x \in S}

NoDup(s) == \A i, j \in 1..Len(s) : i # j => s[i] # s[j]

Min(a, b) == IF a < b THEN a ELSE b

\* Option<T>: None is <<>>, Some(x) is <<x>>
None == <<>>
Some(x) == <<x>>
OptionOr(a, b) == IF a # None THEN a ELSE b

\* ------------------------------------------------------------------ bounds
MaxAlts == 2          \* longest alternatives list of a track record
MaxQueue == 4         \* longest work queue the model follows
MaxFetchCount == 2    \* the per-id fetch counter saturates here
MaxRefs == 3          \* most input references of one run
MaxPackets == 3       \* most packets of one container
MaxInput == 2         \* most input lines of one run
MaxTracks == 2        \* most resolved tracks the processing loop is run on

\* ------------------------------------------------------------------ catalog data
TrackIds == {"A", "B", "C"}

OGG_VORBIS_320 == "OGG_VORBIS_320"
OGG_VORBIS_160 == "OGG_VORBIS_160"
OGG_VORBIS_96 == "OGG_VORBIS_96"
MP3_320 == "MP3_320"
AudioFileFormats == {OGG_VORBIS_320, OGG_VORBIS_160, OGG_VORBIS_96, MP3_320}

\* the file id the catalog stores for one encoding of one track
FileIdOf(id, fmt) == <<id, fmt>>

\* lists of alternatives: no id twice in one list
AltLists == {s \in SeqsUpTo(TrackIds, MaxAlts) : NoDup(s)}

\* every record Track::get may return for id to a single call of get_track_from_id
TrackRecords(id) ==
    {[id |-> id, files |-> [f \in fs |-> FileIdOf(id, f)], alternatives |-> alts,
      artists |-> <<"X">>] :
        fs \in SUBSET AudioFileFormats, alts \in AltLists}

\* the records the processing loop is run on: one alternative at most, with or
\* without the best encoding, always with an artist
LoopTrackRecords(id) ==
    {[id |-> id, files |-> [f \in fs |-> FileIdOf(id, f)], alternatives |-> alts,
      artists |-> <<"X">>] :
        fs \in {{}, {OGG_VORBIS_320}}, alts \in SeqsUpTo(TrackIds, 1)}

\* ------------------------------------------------------------------ get_track_from_id
\* HashMap::get_key_value
GetKeyValue(files, fmt) ==
    IF fmt \in DOMAIN files THEN Some(<<fmt, files[fmt]>>) ELSE None

\* mutant: the chain tries the lowest bitrate first
SelectFormatLowestFirst(files) ==
    OptionOr(OptionOr(OptionOr(None, GetKeyValue(files, OGG_VORBIS_96)),
                      GetKeyValue(files, OGG_VORBIS_160)),
             GetKeyValue(files, OGG_VORBIS_320))

\* the None.or(..).or(..).or(..) chain of lines 478-481
SelectFormat(files) ==
    OptionOr(OptionOr(OptionOr(None, GetKeyValue(files, OGG_VORBIS_320)),
                      GetKeyValue(files, OGG_VORBIS_160)),
             GetKeyValue(files, OGG_VORBIS_96))

\* mutant: pop_back instead of pop_front
PopBack(q) == [head |-> q[Len(q)], rest |-> SubSeq(q, 1, Len(q) - 1)]

\* VecDeque::pop_front on a non-empty queue
PopFront(q) == [head |-> Head(q), rest |-> Tail(q)]

\* VecDeque::extend
Extend(q, items) == q \o items

SelectIdle ==
    /\ selPc = "idle"
    /\ start_id = "A"
    /\ track_ids = <<>>
    /\ catalog = <<>>
    /\ selResult = <<>>
    /\ fetchCount = [t \in TrackIds |-> 0]

ResolveIdle ==
    /\ resPc = "idle"
    /\ input_resources = <<>>
    /\ resPos = 1
    /\ input_tracks = <<>>
    /\ warnings = <<>>
    /\ resolved = <<>>

RewriteIdle ==
    /\ rwPc = "idle"
    /\ comment_header = [vendor |-> <<>>, comment_list |-> <<>>]
    /\ in_packets = <<>>
    /\ out_packets = <<>>
    /\ overwrote_header = FALSE
    /\ rwResult = <<>>

NoLocation == [tag |-> "none", kind |-> "", id |-> <<>>, line |-> <<>>]

LocateIdle ==
    /\ locPc = "idle"
    /\ cur_line = <<>>
    /\ located = NoLocation
    /\ skipped = 0

ProcessIdle ==
    /\ procPc = "idle"
    /\ procPos = 1
    /\ num_completed = 0
    /\ num_existing = 0
    /\ outcomes = <<>>

TagsIdle ==
    /\ tagPc = "idle"
    /\ tag_header = [vendor |-> <<>>, comment_list |-> <<>>]
    /\ tag_packet = <<>>
    /\ tag_read = <<>>

SelectBegin(id) ==
    /\ selPc' = "walk"
    /\ start_id' = id
    /\ track_ids' = <<id>>
    /\ selResult' = <<>>
    /\ fetchCount' = [t \in TrackIds |-> 0]

\* what Track::get(id) may answer: the record the catalog gave before, if any
Answers(id) ==
    IF id \in DOMAIN catalog THEN {catalog[id]}
    ELSE IF procPc = "idle" THEN TrackRecords(id)
    ELSE LoopTrackRecords(id)

Remember(id, rec) == [t \in DOMAIN catalog \cup {id} |-> IF t = id THEN rec ELSE catalog[t]]

CountFetch(id) == [fetchCount EXCEPT ![id] = Min(@ + 1, MaxFetchCount)]

\* one iteration of the while loop whose Track::get fails: `?` returns the error
SelectFetchErr ==
    /\ selPc = "walk"
    /\ track_ids # <<>>
    /\ LET p == PopFront(track_ids) IN
        /\ track_ids' = p.rest
        /\ fetchCount' = CountFetch(p.head)
        /\ selResult' = Some([ok |-> FALSE, error |-> "lookup"])
        /\ selPc' = "done"
    /\ UNCHANGED <<start_id, catalog, resVars, rwVars, tagVars, locVars, procVars>>

\* one iteration of the while loop whose Track::get succeeds
SelectStep ==
    /\ selPc = "walk"
    /\ track_ids # <<>>
    /\ LET p == PopFront(track_ids) IN
       \E track \in Answers(p.head) :
        /\ catalog' = Remember(p.head, track)
        /\ fetchCount' = CountFetch(p.head)
        /\ LET format == SelectFormat(track.files) IN
           IF format # None
           THEN /\ selResult' = Some([ok |-> TRUE, track |-> track, file_id |-> format[1][2]])
                /\ track_ids' = p.rest
                /\ selPc' = "done"
           ELSE IF Len(Extend(p.rest, track.alternatives)) > MaxQueue
           THEN /\ selPc' = "bound"
                /\ UNCHANGED <<track_ids, selResult>>
           ELSE /\ track_ids' = Extend(p.rest, track.alternatives)
                /\ UNCHANGED <<selPc, selResult>>
    /\ UNCHANGED <<start_id, resVars, rwVars, tagVars, locVars, procVars>>

\* the queue is empty: line 488
SelectExhausted ==
    /\ selPc = "walk"
    /\ track_ids = <<>>
    /\ selResult' = Some([ok |-> FALSE, error |-> "not_found"])
    /\ selPc' = "done"
    /\ UNCHANGED <<start_id, track_ids, catalog, fetchCount, resVars, rwVars, tagVars, locVars, procVars>>

SelectInit == SelectIdle /\ ResolveIdle /\ RewriteIdle /\ LocateIdle /\ ProcessIdle /\ TagsIdle

\* a caller asks for one track id
SelectCall ==
    /\ selPc = "idle"
    /\ \E id \in TrackIds : SelectBegin(id)
    /\ UNCHANGED <<catalog, resVars, rwVars, tagVars, locVars, procVars>>

SelectNext == SelectCall \/ SelectFetchErr \/ SelectStep \/ SelectExhausted

SpecSelect == SelectInit /\ [][SelectNext]_vars
\* the loop keeps running while it has something to do
FairSelect == SpecSelect /\ WF_vars(SelectNext)

\* ------------------------------------------------------------------ collections of the catalog
PlaylistTracks == [P1 |-> <<"A", "B">>, P2 |-> <<"B", "B", "C">>]
AlbumTracks == [L1 |-> <<"A", "C">>, L2 |-> <<"C">>]
\* artist.albums and artist.singles: groups of album ids
ArtistRecords == [R1 |-> [albums |-> << <<"L1">>, <<"L2", "L1">> >>, singles |-> << <<"L2">> >>]]

Resource(kind, id) == [kind |-> kind, id |-> id]

InputResources ==
    {Resource("track", t) : t \in TrackIds}
        \cup {Resource("playlist", p) : p \in DOMAIN PlaylistTracks}
        \cup {Resource("album", a) : a \in DOMAIN AlbumTracks}
        \cup {Resource("artist", r) : r \in DOMAIN ArtistRecords}

RECURSIVE Flatten(_)
\* the albums of a sequence of groups, in order
Flatten(groups) == IF groups = <<>> THEN <<>> ELSE Head(groups) \o Flatten(Tail(groups))

\* ------------------------------------------------------------------ InputResource::get_tracks
ResultOk(tracks) == [ok |-> TRUE, tracks |-> tracks]
ResultErr == [ok |-> FALSE, tracks |-> <<>>]

RECURSIVE GetTracks(_, _)
RECURSIVE ExtendFromAlbums(_, _, _)
\* the nested for loops of lines 394-405 and 407-418 over the albums of the groups:
\* each album is resolved as an Album resource, `?` returns its error
ExtendFromAlbums(tracks, albums, failing) ==
    IF albums = <<>> THEN ResultOk(tracks)
    ELSE LET r == GetTracks(Resource("album", Head(albums)), failing)
         IN  IF ~r.ok THEN ResultErr
             ELSE ExtendFromAlbums(tracks \o r.tracks, Tail(albums), failing)

\* get_tracks of res when the catalog lookups of the ids in failing fail
GetTracks(res, failing) ==
    CASE res.kind = "track" -> ResultOk(<<res.id>>)
      [] res.kind = "playlist" ->
            IF res.id \in failing THEN ResultErr ELSE ResultOk(PlaylistTracks[res.id])
      [] res.kind = "album" ->
            IF res.id \in failing THEN ResultErr ELSE ResultOk(AlbumTracks[res.id])
      [] res.kind = "artist" ->
            IF res.id \in failing THEN ResultErr
            ELSE LET artist == ArtistRecords[res.id]
                     fromAlbums == ExtendFromAlbums(<<>>, Flatten(artist.albums), failing)
                 IN  IF ~fromAlbums.ok THEN ResultErr
                     ELSE ExtendFromAlbums(fromAlbums.tracks, Flatten(artist.singles), failing)

\* the catalog ids one call of get_tracks looks up
Lookups(res) ==
    CASE res.kind = "track" -> {}
      [] res.kind \in {"playlist", "album"} -> {res.id}
      [] res.kind = "artist" ->
            {res.id} \cup Range(Flatten(ArtistRecords[res.id].albums))
                     \cup Range(Flatten(ArtistRecords[res.id].singles))

\* the first failing lookup decides the call: none fails, or one does
Failures(res) == {{}} \cup {{x} : x \in Lookups(res)}

\* ------------------------------------------------------------------ main: the resolution loop
\* mutant: a Vec instead of a HashSet
VecExtend(set, items) == set \o items

RECURSIVE HashSetExtend(_, _)
\* HashSet::extend: insert every item that is not yet present
HashSetExtend(set, items) ==
    IF items = <<>> THEN set
    ELSE HashSetExtend(IF Head(items) \in Range(set) THEN set ELSE Append(set, Head(items)),
                       Tail(items))

\* mutant: the first failing reference ends the loop
ResolveErrAbort(res) ==
    /\ warnings' = Append(warnings, res)
    /\ resPos' = Len(input_resources) + 1
    /\ UNCHANGED input_tracks

\* the Err arm of lines 83-91: print the warning, go on with the next reference
ResolveErrArm(res) ==
    /\ warnings' = Append(warnings, res)
    /\ resPos' = resPos + 1
    /\ UNCHANGED input_tracks

\* the Ok arm of line 82
ResolveOkArm(tracks) ==
    /\ input_tracks' = HashSetExtend(input_tracks, tracks)
    /\ resPos' = resPos + 1
    /\ UNCHANGED warnings

\* one iteration of the for loop of line 80 whose get_tracks succeeds
ResolveOk ==
    /\ resPc = "run"
    /\ resPos <= Len(input_resources)
    /\ LET r == GetTracks(input_resources[resPos], {}) IN
        /\ r.ok
        /\ resolved' = Append(resolved, r)
        /\ ResolveOkArm(r.tracks)
    /\ UNCHANGED <<resPc, input_resources, selVars, rwVars, tagVars, locVars, procVars>>

\* one iteration of the for loop of line 80 whose get_tracks fails
ResolveErr ==
    /\ resPc = "run"
    /\ resPos <= Len(input_resources)
    /\ \E failing \in Failures(input_resources[resPos]) :
        LET r == GetTracks(input_resources[resPos], failing) IN
        /\ ~r.ok
        /\ resolved' = Append(resolved, r)
        /\ ResolveErrArm(input_resources[resPos])
    /\ UNCHANGED <<resPc, input_resources, selVars, rwVars, tagVars, locVars, procVars>>

\* the loop is over: lines 95-98
ResolveEnd ==
    /\ resPc = "run"
    /\ resPos > Len(input_resources)
    /\ resPc' = IF input_tracks = <<>> THEN "exit" ELSE "done"
    /\ UNCHANGED <<input_resources, resPos, input_tracks, warnings, resolved, selVars, rwVars, tagVars, locVars, procVars>>

ResolveInit ==
    /\ SelectIdle
    /\ RewriteIdle
    /\ TagsIdle
    /\ LocateIdle
    /\ ProcessIdle
    /\ resPc = "run"
    /\ input_resources \in SeqsUpTo(InputResources, MaxRefs)
    /\ resPos = 1
    /\ input_tracks = <<>>
    /\ warnings = <<>>
    /\ resolved = <<>>

ResolveNext == ResolveOk \/ ResolveErr \/ ResolveEnd

SpecResolve == ResolveInit /\ [][ResolveNext]_vars

\* ------------------------------------------------------------------ claims: resolution
ResolveFinished == resPc \in {"done", "exit"}

\* the track ids the references that resolved have contributed
Contributed == UNION {Range(resolved[i].tracks) : i \in {j \in 1..Len(resolved) : resolved[j].ok}}

\* C3: after the resolution loop the resolved collection holds each track id at
\* most once and its size is the number of distinct track ids contributed.
C3_Dedup ==
    ResolveFinished =>
        /\ NoDup(input_tracks)
        /\ Range(input_tracks) = Contributed
        /\ Len(input_tracks) = Cardinality(Contributed)

\* the same playlist twice, and a playlist and an album that share a track
C3_Witness ==
    /\ ResolveFinished
    /\ Len(resolved) = 3
    /\ input_resources[1] = input_resources[2]
    /\ input_resources[1].kind = "playlist"
    /\ input_resources[3].kind = "album"
    /\ \A i \in 1..3 : resolved[i].ok
    /\ Range(resolved[1].tracks) \cap Range(resolved[3].tracks) # {}

\* C4: a failing lookup of one reference records a warning for that reference and
\* resolution goes on: every reference is handled, every failed one has its
\* warning, and every track of every reference that resolved is in the final set.
C4_PartialFailure ==
    ResolveFinished =>
        /\ Len(resolved) = Len(input_resources)
        /\ Len(warnings) = Cardinality({i \in 1..Len(resolved) : ~resolved[i].ok})
        /\ \A i \in 1..Len(resolved) :
            IF resolved[i].ok
            THEN Range(resolved[i].tracks) \subseteq Range(input_tracks)
            ELSE input_resources[i] \in Range(warnings)

\* the first reference fails, a later one resolves
C4_Witness ==
    /\ ResolveFinished
    /\ Len(resolved) = 3
    /\ ~resolved[1].ok
    /\ resolved[2].ok /\ resolved[2].tracks # <<>>
    /\ ~resolved[3].ok
    /\ Range(resolved[2].tracks) \subseteq Range(input_tracks)

\* ------------------------------------------------------------------ comment header bytes
\* strings are sequences of bytes
STR_Ogg == <<79, 103, 103>>
STR_title == <<116, 105, 116, 108, 101>>
STR_album == <<97, 108, 98, 117, 109>>
STR_artist == <<97, 114, 116, 105, 115, 116>>
EQUALS == <<61>>

\* TryInto::<u32>::try_into(n).ok(): n < 2^32
TryIntoU32(n) == IF n \div 65536 < 65536 THEN Some(n) ELSE None

\* mutant: the bytes of a u32, most significant first
ToBeBytes(n) ==
    <<(n \div 16777216) % 256, (n \div 65536) % 256, (n \div 256) % 256, n % 256>>

\* u32::to_le_bytes
ToLeBytes(n) ==
    <<n % 256, (n \div 256) % 256, (n \div 65536) % 256, (n \div 16777216) % 256>>

\* 0x03 'v' 'o' 'r' 'b' 'i' 's', line 632
CommentSignature == <<3, 118, 111, 114, 98, 105, 115>>

RECURSIVE CommentEntries(_)
\* the for loop of lines 644-651: Some(bytes) or None
CommentEntries(list) ==
    IF list = <<>> THEN Some(<<>>)
    ELSE LET comment_buf == list[1][1] \o EQUALS \o list[1][2]
             comment_len == TryIntoU32(Len(comment_buf))
             rest == CommentEntries(Tail(list))
         IN  IF comment_len = None \/ rest = None THEN None
             ELSE Some(ToLeBytes(comment_len[1]) \o comment_buf \o rest[1])

\* make_header_comment, lines 628-655: Some(packet) or None
MakeHeaderComment(header) ==
    LET vendor_len == TryIntoU32(Len(header.vendor))
        comments_len == TryIntoU32(Len(header.comment_list))
        entries == CommentEntries(header.comment_list)
    IN  IF vendor_len = None \/ comments_len = None \/ entries = None THEN None
        ELSE Some(CommentSignature \o ToLeBytes(vendor_len[1]) \o header.vendor
                    \o ToLeBytes(comments_len[1]) \o entries[1] \o <<1>>)

\* a little-endian u32 at pos, None at the end of the packet; a value of 2^31 or
\* more is read as 2^31 - 1 (either is longer than any packet here)
ReadU32(data, pos) ==
    IF pos + 3 > Len(data) THEN None
    ELSE IF data[pos + 3] >= 128 THEN Some(2147483647)
    ELSE Some(data[pos] + 256 * data[pos + 1] + 65536 * data[pos + 2]
                + 16777216 * data[pos + 3])

\* the position of the first '=' of a comment, 0 if none
FirstEquals(comment) ==
    LET at == {i \in 1..Len(comment) : comment[i] = EQUALS[1]}
    IN  IF at = {} THEN 0 ELSE CHOOSE i \in at : \A j \in at : i <= j

RECURSIVE ReadComments(_, _, _)
\* count length-prefixed "key=value" entries from pos: [ok, list, pos]; an entry
\* without '=' is skipped
ReadComments(data, pos, count) ==
    IF count = 0 THEN [ok |-> TRUE, list |-> <<>>, pos |-> pos]
    ELSE LET len == ReadU32(data, pos) IN
         IF len = None THEN [ok |-> FALSE, list |-> <<>>, pos |-> pos]
         ELSE IF len[1] > Len(data) - (pos + 3) THEN [ok |-> FALSE, list |-> <<>>, pos |-> pos]
         ELSE LET comment == SubSeq(data, pos + 4, pos + 3 + len[1])
                  eq == FirstEquals(comment)
                  rest == ReadComments(data, pos + 4 + len[1], count - 1)
              IN  [ok |-> rest.ok,
                   list |-> (IF eq = 0 THEN <<>>
                             ELSE << <<SubSeq(comment, 1, eq - 1),
                                       SubSeq(comment, eq + 1, Len(comment))>> >>) \o rest.list,
                   pos |-> rest.pos]

ReadHeaderFailed == [ok |-> FALSE, vendor |-> <<>>, comment_list |-> <<>>]

\* lewton's read_header_comment, called at line 685: the packet type 3, "vorbis",
\* the vendor string, the comments and the framing byte 1
ReadHeaderComment(data) ==
    IF Len(data) < Len(CommentSignature) THEN ReadHeaderFailed
    ELSE IF SubSeq(data, 2, 7) # SubSeq(CommentSignature, 2, 7) THEN ReadHeaderFailed
    ELSE IF data[1] # CommentSignature[1] THEN ReadHeaderFailed
    ELSE LET vendor_length == ReadU32(data, 8) IN
         IF vendor_length = None THEN ReadHeaderFailed
         ELSE IF vendor_length[1] > Len(data) - 11 THEN ReadHeaderFailed
         ELSE LET count == ReadU32(data, 12 + vendor_length[1]) IN
              IF count = None THEN ReadHeaderFailed
              ELSE IF count[1] > Len(data) THEN ReadHeaderFailed
              ELSE LET comments == ReadComments(data, 16 + vendor_length[1], count[1]) IN
                   IF ~comments.ok THEN ReadHeaderFailed
                   ELSE IF comments.pos > Len(data) THEN ReadHeaderFailed
                   ELSE IF data[comments.pos] # 1 THEN ReadHeaderFailed
                   ELSE [ok |-> TRUE,
                         vendor |-> SubSeq(data, 12, 11 + vendor_length[1]),
                         comment_list |-> comments.list]

\* ------------------------------------------------------------------ track_add_metadata_tags
\* the CommentHeader of lines 606-622 for a track's name, album name and artists
MetadataOf(name, album, artists) ==
    [vendor |-> STR_Ogg,
     comment_list |-> << <<STR_title, name>>, <<STR_album, album>> >>
                        \o [i \in 1..Len(artists) |-> <<STR_artist, artists[i]>>]]

\* the headers the rewrite is tried with
CommentHeaders ==
    {MetadataOf(<<84>>, <<76>>, <<<<88>>>>), MetadataOf(<<84, 61>>, <<>>, <<<<88>>, <<89>>>>)}

\* ------------------------------------------------------------------ make_header_comment, read back
MaxComments == 2

\* header.vendor, comment.0 and comment.1 of lines 634-645: empty strings, the
\* strings of track_add_metadata_tags, and strings holding '='
TagVendors == {<<>>, STR_Ogg}
TagKeys == {<<>>, STR_title, STR_artist, <<97, 61>>}
TagValues == {<<>>, <<88>>, <<61, 88>>}

\* the headers serialized: every short list of entries, and the headers
\* track_add_metadata_tags builds
TagHeaders ==
    {[vendor |-> v, comment_list |-> l] :
        v \in TagVendors, l \in SeqsUpTo(TagKeys \X TagValues, MaxComments)}
        \cup CommentHeaders

\* make_header_comment(comment_header), as called at line 686
TagsMake ==
    /\ tagPc = "make"
    /\ tag_packet' = MakeHeaderComment(tag_header)
    /\ tagPc' = IF tag_packet' = None THEN "done" ELSE "read"
    /\ UNCHANGED <<tag_header, tag_read, selVars, resVars, rwVars, locVars, procVars>>

\* lhr::read_header_comment(&packet.data), as called at line 685, on that packet
TagsRead ==
    /\ tagPc = "read"
    /\ tag_read' = Some(ReadHeaderComment(tag_packet[1]))
    /\ tagPc' = "done"
    /\ UNCHANGED <<tag_header, tag_packet, selVars, resVars, rwVars, locVars, procVars>>

TagsInit ==
    /\ SelectIdle
    /\ ResolveIdle
    /\ RewriteIdle
    /\ LocateIdle
    /\ ProcessIdle
    /\ tagPc = "make"
    /\ tag_header \in TagHeaders
    /\ tag_packet = <<>>
    /\ tag_read = <<>>

TagsNext == TagsMake \/ TagsRead

SpecTags == TagsInit /\ [][TagsNext]_vars

\* ------------------------------------------------------------------ claims: make_header_comment
NoEqualsInKeys(header) ==
    \A i \in 1..Len(header.comment_list) : FirstEquals(header.comment_list[i][1]) = 0

RECURSIVE EntriesLen(_)
\* the bytes of the entries: a 4-byte length, the key, '=', the value
EntriesLen(list) ==
    IF list = <<>> THEN 0
    ELSE 4 + Len(list[1][1]) + 1 + Len(list[1][2]) + EntriesLen(Tail(list))

\* C12: the packet made starts with 0x03 'vorbis', carries the vendor and entry
\* count as little-endian 32-bit numbers, one length-prefixed entry per comment
\* and ends with the byte 0x01; read back it gives the same vendor and the same
\* ordered list of (key, value) pairs, repeated keys included, whenever no key
\* holds '='.
C12_RoundTrip ==
    /\ tagPc \in {"read", "done"} =>
        /\ tag_packet # None
        /\ LET packet == tag_packet[1]
               vlen == Len(tag_header.vendor)
           IN  /\ Len(packet) = 7 + 4 + vlen + 4 + EntriesLen(tag_header.comment_list) + 1
               /\ SubSeq(packet, 1, 7) = <<3, 118, 111, 114, 98, 105, 115>>
               /\ SubSeq(packet, 8, 11) = <<vlen, 0, 0, 0>>
               /\ SubSeq(packet, 12, 11 + vlen) = tag_header.vendor
               /\ SubSeq(packet, 12 + vlen, 15 + vlen)
                    = <<Len(tag_header.comment_list), 0, 0, 0>>
               /\ packet[Len(packet)] = 1
    /\ (tagPc = "done" /\ NoEqualsInKeys(tag_header)) =>
        /\ tag_read # <<>>
        /\ tag_read[1].ok
        /\ tag_read[1].vendor = tag_header.vendor
        /\ tag_read[1].comment_list = tag_header.comment_list

C12_Witness ==
    /\ tagPc = "done"
    /\ tag_header.vendor = STR_Ogg
    /\ tag_header.comment_list = << <<STR_artist, <<88>>>>, <<STR_artist, <<61, 88>>>> >>
    /\ tag_read[1].ok
    /\ tag_read[1].comment_list = tag_header.comment_list

\* ------------------------------------------------------------------ ogg packets
\* packet payloads: an identification header, a comment header, a truncated
\* comment header, audio
Payloads ==
    {<<1, 118, 111, 114, 98, 105, 115, 0>>,
     MakeHeaderComment([vendor |-> <<120>>, comment_list |-> << <<<<97>>, <<98>>>> >>])[1],
     <<3, 118, 111, 114, 98, 105, 115, 1, 0, 0, 0>>,
     <<0, 42>>}

\* serial, granule position and flags as ogg::PacketReader delivers them: the
\* last packet of a stream is the last packet of its page
Framings ==
    {[stream_serial |-> 7, absgp_page |-> 0, last_in_page |-> FALSE, last_in_stream |-> FALSE],
     [stream_serial |-> 7, absgp_page |-> 0, last_in_page |-> TRUE, last_in_stream |-> FALSE],
     [stream_serial |-> 9, absgp_page |-> 5, last_in_page |-> FALSE, last_in_stream |-> FALSE],
     [stream_serial |-> 7, absgp_page |-> 5, last_in_page |-> TRUE, last_in_stream |-> TRUE]}

Packets ==
    {[data |-> d, stream_serial |-> f.stream_serial, absgp_page |-> f.absgp_page,
      last_in_page |-> f.last_in_page, last_in_stream |-> f.last_in_stream] :
        d \in Payloads, f \in Framings}

\* ------------------------------------------------------------------ replace_header_comment
\* mutant: the page flag is tested before the stream flag
PacketInfPageFirst(packet) ==
    IF packet.last_in_page THEN "EndPage"
    ELSE IF packet.last_in_stream THEN "EndStream"
    ELSE "NormalPacket"

\* lines 694-700
PacketInf(packet) ==
    IF packet.last_in_stream THEN "EndStream"
    ELSE IF packet.last_in_page THEN "EndPage"
    ELSE "NormalPacket"

\* what writer.write_packet is given, lines 702-706
Written(data, packet) ==
    [data |-> data, serial |-> packet.stream_serial, inf |-> PacketInf(packet),
     absgp |-> packet.absgp_page]

RewriteFail(kind) ==
    /\ rwResult' = Some([ok |-> FALSE, kind |-> kind])
    /\ rwPc' = "done"

\* mutant: every packet that parses as a comment header is replaced
RewritePacketEvery ==
    /\ rwPc = "loop"
    /\ Len(in_packets) < MaxPackets
    /\ \E packet \in Packets :
        /\ in_packets' = Append(in_packets, packet)
        /\ IF ReadHeaderComment(packet.data).ok
           THEN LET made == MakeHeaderComment(comment_header) IN
                IF made = None
                THEN /\ RewriteFail("Header")
                     /\ UNCHANGED <<out_packets, overwrote_header>>
                ELSE /\ overwrote_header' = TRUE
                     /\ out_packets' = Append(out_packets, Written(made[1], packet))
                     /\ UNCHANGED <<rwPc, rwResult>>
           ELSE /\ out_packets' = Append(out_packets, Written(packet.data, packet))
                /\ UNCHANGED <<rwPc, rwResult, overwrote_header>>
    /\ UNCHANGED <<comment_header, selVars, resVars, locVars, procVars, tagVars>>

\* read_packet returns a packet and write_packet succeeds: lines 680-710
RewritePacket ==
    /\ rwPc = "loop"
    /\ Len(in_packets) < MaxPackets
    /\ \E packet \in Packets :
        /\ in_packets' = Append(in_packets, packet)
        /\ IF ~overwrote_header /\ ReadHeaderComment(packet.data).ok
           THEN LET made == MakeHeaderComment(comment_header) IN
                IF made = None
                THEN /\ RewriteFail("Header")
                     /\ UNCHANGED <<out_packets, overwrote_header>>
                ELSE /\ overwrote_header' = TRUE
                     /\ out_packets' = Append(out_packets, Written(made[1], packet))
                     /\ UNCHANGED <<rwPc, rwResult>>
           ELSE /\ out_packets' = Append(out_packets, Written(packet.data, packet))
                /\ UNCHANGED <<rwPc, rwResult, overwrote_header>>
    /\ UNCHANGED <<comment_header, selVars, resVars, locVars, procVars, tagVars>>

\* read_packet fails: lines 680-683
RewriteReadErr ==
    /\ rwPc = "loop"
    /\ RewriteFail("Read")
    /\ UNCHANGED <<comment_header, in_packets, out_packets, overwrote_header, selVars, resVars, locVars, procVars, tagVars>>

\* read_packet returns a packet and write_packet fails: lines 705-710
RewriteWriteErr ==
    /\ rwPc = "loop"
    /\ Len(in_packets) < MaxPackets
    /\ \E packet \in Packets :
        /\ in_packets' = Append(in_packets, packet)
        /\ IF ~overwrote_header /\ ReadHeaderComment(packet.data).ok
           THEN IF MakeHeaderComment(comment_header) = None
                THEN RewriteFail("Header") /\ UNCHANGED overwrote_header
                ELSE RewriteFail("Write") /\ overwrote_header' = TRUE
           ELSE RewriteFail("Write") /\ UNCHANGED overwrote_header
    /\ UNCHANGED <<comment_header, out_packets, selVars, resVars, locVars, procVars, tagVars>>

\* read_packet returns None: break, then line 716
RewriteEnd ==
    /\ rwPc = "loop"
    /\ rwResult' = Some([ok |-> TRUE, buffer |-> out_packets])
    /\ rwPc' = "done"
    /\ UNCHANGED <<comment_header, in_packets, out_packets, overwrote_header, selVars, resVars, locVars, procVars, tagVars>>

RewriteInit ==
    /\ SelectIdle
    /\ ResolveIdle
    /\ LocateIdle
    /\ ProcessIdle
    /\ TagsIdle
    /\ rwPc = "loop"
    /\ comment_header \in CommentHeaders
    /\ in_packets = <<>>
    /\ out_packets = <<>>
    /\ overwrote_header = FALSE
    /\ rwResult = <<>>

RewriteNext == RewritePacket \/ RewriteReadErr \/ RewriteWriteErr \/ RewriteEnd

SpecRewrite == RewriteInit /\ [][RewriteNext]_vars

\* ------------------------------------------------------------------ claims: replace_header_comment
RewriteDone == rwPc = "done"
RewriteOk == rwPc = "done" /\ rwResult[1].ok

\* the positions of the input packets that parse as a comment header
CommentPositions == {i \in 1..Len(in_packets) : ReadHeaderComment(in_packets[i].data).ok}

FirstCommentPosition ==
    IF CommentPositions = {} THEN 0
    ELSE CHOOSE i \in CommentPositions : \A j \in CommentPositions : i <= j

\* the flags a reader finds on a packet written with end info inf
WrittenLastInStream(w) == w.inf = "EndStream"
WrittenLastInPage(w) == w.inf \in {"EndStream", "EndPage"}

\* C2: when no packet of a (non-empty) container parsed as a comment header the
\* call ends with an error (at end-of-stream: the Header error) and no output
\* buffer; it never returns a successful result in which nothing was replaced.
C2_MissingHeader ==
    (RewriteDone /\ in_packets # <<>> /\ CommentPositions = {})
        => (~rwResult[1].ok /\ rwResult[1].kind \in {"Header", "Read", "Write"})

\* C7: on success the output holds as many packets as the input, in order, each
\* with the serial, granule position and page/stream flags of the input packet at
\* its position, and every packet but the replaced one has the same payload.
C7_FramingPreserved ==
    RewriteOk =>
        LET out == rwResult[1].buffer IN
        /\ Len(out) = Len(in_packets)
        /\ \A i \in 1..Len(in_packets) :
            /\ out[i].serial = in_packets[i].stream_serial
            /\ out[i].absgp = in_packets[i].absgp_page
            /\ WrittenLastInStream(out[i]) = in_packets[i].last_in_stream
            /\ WrittenLastInPage(out[i]) = in_packets[i].last_in_page
            /\ i # FirstCommentPosition => out[i].data = in_packets[i].data

C7_Witness ==
    /\ RewriteOk
    /\ Len(in_packets) = 3
    /\ FirstCommentPosition = 2
    /\ rwResult[1].buffer[2].data # in_packets[2].data
    /\ in_packets[2].last_in_page /\ ~in_packets[2].last_in_stream
    /\ in_packets[3].last_in_stream

\* C11: the loop starts scanning (nothing replaced), replaces the payload of the
\* first packet that parses as a comment header and of no other packet: every
\* packet before it and every packet after it, one that parses as a comment
\* header included, is emitted with its original payload; once a packet was
\* replaced the loop is in pass-through.
C11_SingleReplacement ==
    /\ (rwPc = "loop" /\ in_packets = <<>>) => ~overwrote_header
    /\ rwPc = "loop" => (overwrote_header <=> CommentPositions # {})
    /\ \A i \in 1..Len(out_packets) :
        IF i = FirstCommentPosition
        THEN out_packets[i].data = MakeHeaderComment(comment_header)[1]
        ELSE out_packets[i].data = in_packets[i].data

C11_Witness ==
    /\ RewriteOk
    /\ CommentPositions = {2, 3}
    /\ rwResult[1].buffer[1].data = in_packets[1].data
    /\ rwResult[1].buffer[2].data = MakeHeaderComment(comment_header)[1]
    /\ rwResult[1].buffer[2].data # in_packets[2].data
    /\ rwResult[1].buffer[3].data = in_packets[3].data
    /\ in_packets[1].stream_serial # in_packets[3].stream_serial

\* ------------------------------------------------------------------ input lines
\* a line is a sequence of characters
IdLen == 22

\* the digits of SpotifyId::from_base62, value 0 first
Base62Alphabet ==
    <<"0", "1", "2", "3", "4", "5", "6", "7", "8", "9", "a", "b", "c", "d", "e", "f", "g",
      "h", "i", "j", "k", "l", "m", "n", "o", "p", "q", "r", "s", "t", "u", "v", "w", "x",
      "y", "z", "A", "B", "C", "D", "E", "F", "G", "H", "I", "J", "K", "L", "M", "N", "O",
      "P", "Q", "R", "S", "T", "U", "V", "W", "X", "Y", "Z">>

\* [[:alnum:]]
Alnum == Range(Base62Alphabet)

Base62Digit(c) == (CHOOSE i \in 1..Len(Base62Alphabet) : Base62Alphabet[i] = c) - 1

\* u128::MAX in base 62, most significant digit first
U128MaxDigits ==
    <<7, 49, 4, 2, 13, 16, 22, 5, 29, 41, 47, 46, 9, 49, 8, 48, 55, 7, 15, 43, 38, 7>>

RECURSIVE DigitsLeq(_, _)
\* a <= b for digit sequences of one length
DigitsLeq(a, b) ==
    IF a = <<>> THEN TRUE
    ELSE IF Head(a) # Head(b) THEN Head(a) < Head(b)
    ELSE DigitsLeq(Tail(a), Tail(b))

\* SpotifyId::from_base62 (librespot), called at line 459: the id as a number of
\* base-62 digits, None when a character is no digit or the value leaves u128
FromBase62(str) ==
    IF \E i \in 1..Len(str) : str[i] \notin Alnum THEN None
    ELSE LET digits == [i \in 1..Len(str) |-> Base62Digit(str[i])]
             width == Len(U128MaxDigits)
         IN  IF Len(digits) < width THEN Some(digits)
             ELSE IF \E i \in 1..(Len(digits) - width) : digits[i] # 0 THEN None
             ELSE IF DigitsLeq(SubSeq(digits, Len(digits) - width + 1, Len(digits)),
                               U128MaxDigits)
                  THEN Some(digits)
                  ELSE None

\* SpotifyId::to_base62
ToBase62(id) == [i \in 1..Len(id) |-> Base62Alphabet[id[i] + 1]]

ResourceKinds == {"track", "album", "playlist", "artist"}

\* impl fmt::Display for ResourceKind, lines 344-353
KindName(kind) ==
    CASE kind = "track" -> <<"t", "r", "a", "c", "k">>
      [] kind = "album" -> <<"a", "l", "b", "u", "m">>
      [] kind = "playlist" -> <<"p", "l", "a", "y", "l", "i", "s", "t">>
      [] kind = "artist" -> <<"a", "r", "t", "i", "s", "t">>

LIT_http == <<"h", "t", "t", "p">>
LIT_s == <<"s">>
LIT_scheme_end == <<":", "/", "/">>
LIT_host == <<"o", "p", "e", "n", ".", "s", "p", "o", "t", "i", "f", "y", ".", "c", "o", "m", "/">>
LIT_slash == <<"/">>
LIT_spotify == <<"s", "p", "o", "t", "i", "f", "y", ":">>
LIT_colon == <<":">>

IsPrefix(lit, line) == Len(lit) <= Len(line) /\ SubSeq(line, 1, Len(lit)) = lit
DropPrefix(lit, line) == SubSeq(line, Len(lit) + 1, Len(line))

\* ([[:alnum:]]{22})$ : the rest of the line is the id
IdCapture(rest) ==
    IF Len(rest) = IdLen /\ \A i \in 1..Len(rest) : rest[i] \in Alnum THEN Some(rest) ELSE None

\* what is left of the line after ^(http(s)?://)? : each way the group can match
AfterScheme(line) ==
    {line}
        \cup {DropPrefix(LIT_http \o LIT_scheme_end, line) :
                x \in {y \in {1} : IsPrefix(LIT_http \o LIT_scheme_end, line)}}
        \cup {DropPrefix(LIT_http \o LIT_s \o LIT_scheme_end, line) :
                x \in {y \in {1} : IsPrefix(LIT_http \o LIT_s \o LIT_scheme_end, line)}}

\* the captures of to_url_regex, lines 356-362: Some(id) or None
UrlCaptures(kind, line) ==
    LET literal == LIT_host \o KindName(kind) \o LIT_slash
        ids == {IdCapture(DropPrefix(literal, rest)) :
                    rest \in {r \in AfterScheme(line) : IsPrefix(literal, r)}} \ {None}
    IN  IF ids = {} THEN None ELSE CHOOSE c \in ids : TRUE

\* the captures of to_uri_regex, lines 364-366: Some(id) or None
UriCaptures(kind, line) ==
    LET literal == LIT_spotify \o KindName(kind) \o LIT_colon
    IN  IF IsPrefix(literal, line) THEN IdCapture(DropPrefix(literal, line)) ELSE None

\* is_resource, lines 456-466: "some" with the id, "none", or "panic" when
\* from_base62(..).unwrap() meets an Err
IsResource(line, kind) ==
    LET captures == OptionOr(UrlCaptures(kind, line), UriCaptures(kind, line)) IN
    IF captures = None THEN [tag |-> "none", id |-> <<>>]
    ELSE LET id == FromBase62(captures[1]) IN
         IF id = None THEN [tag |-> "panic", id |-> <<>>]
         ELSE [tag |-> "some", id |-> id[1]]

RECURSIVE FirstResource(_, _)
\* the if / else if chain of lines 427-453 over the kinds in order
FirstResource(line, kinds) ==
    IF kinds = <<>> THEN [tag |-> "err", kind |-> "", id |-> <<>>, line |-> line]
    ELSE LET r == IsResource(line, Head(kinds)) IN
         CASE r.tag = "panic" -> [tag |-> "panic", kind |-> "", id |-> <<>>, line |-> <<>>]
           [] r.tag = "some" -> [tag |-> "ok", kind |-> Head(kinds), id |-> r.id, line |-> <<>>]
           [] r.tag = "none" -> FirstResource(line, Tail(kinds))

\* get_resource_from_line, lines 426-454
GetResourceFromLine(line) == FirstResource(line, <<"track", "album", "playlist", "artist">>)

\* ------------------------------------------------------------------ the lines tried
ID_a == [i \in 1..IdLen |-> "a"]
ID_album == <<"1", "1", "d", "N", "z", "P", "v", "j", "9", "g", "1", "K", "Z", "7", "X", "3", "X", "h", "w", "F", "r", "1">>
ID_max == ToBase62(U128MaxDigits)
ID_over == [i \in 1..IdLen |-> IF i = IdLen THEN "8" ELSE ID_max[i]]
ID_z == [i \in 1..IdLen |-> "z"]

FullIds == {ID_a, ID_album, ID_max, ID_over, ID_z}

\* one character short, one long, one that is no letter or digit, none
OtherIds ==
    {SubSeq(ID_a, 1, IdLen - 1), ID_a \o <<"a">>,
     [i \in 1..IdLen |-> IF i = 3 THEN "-" ELSE "a"], <<>>}

LinePrefixes(kind) ==
    {LIT_host \o KindName(kind) \o LIT_slash,
     LIT_http \o LIT_scheme_end \o LIT_host \o KindName(kind) \o LIT_slash,
     LIT_http \o LIT_s \o LIT_scheme_end \o LIT_host \o KindName(kind) \o LIT_slash,
     LIT_spotify \o KindName(kind) \o LIT_colon}

\* prefixes that are nearly one of the forms
NearPrefixes ==
    {<<"h", "t", "t", "p", ":", "/", "o", "p", "e", "n", ".", "s", "p", "o", "t", "i", "f", "y", ".", "c", "o", "m", "/", "t", "r", "a", "c", "k", "/">>,
     <<"h", "t", "t", "p", "s", "/", "/", "o", "p", "e", "n", ".", "s", "p", "o", "t", "i", "f", "y", ".", "c", "o", "m", "/", "t", "r", "a", "c", "k", "/">>,
     <<"o", "p", "e", "n", "-", "s", "p", "o", "t", "i", "f", "y", ".", "c", "o", "m", "/", "t", "r", "a", "c", "k", "/">>,
     <<"o", "p", "e", "n", ".", "s", "p", "o", "t", "i", "f", "y", ".", "c", "o", "m", "/", "s", "h", "o", "w", "/">>,
     <<"s", "p", "o", "t", "i", "f", "y", "/", "t", "r", "a", "c", "k", "/">>,
     <<"s", "p", "o", "t", "i", "f", "y", ":", "t", "r", "a", "c", "k", "/">>,
     <<"S", "p", "o", "t", "i", "f", "y", ":", "t", "r", "a", "c", "k", ":">>}

Lines ==
    {pre \o id : pre \in UNION {LinePrefixes(k) : k \in ResourceKinds}, id \in FullIds}
        \cup {pre \o id : pre \in LinePrefixes("track"), id \in OtherIds}
        \cup {lead \o pre \o ID_a \o trail :
                pre \in LinePrefixes("track"),
                lead \in {<<>>, <<" ">>, <<"x">>}, trail \in {<<>>, <<"/">>, <<"\n">>, <<"a">>}}
        \cup {pre \o ID_a : pre \in NearPrefixes}

\* ------------------------------------------------------------------ main: the input lines
\* one input line of lines 52-76: located, or skipped with a warning; the unwrap
\* inside is_resource aborts the run
LocateLine ==
    /\ locPc = "run"
    /\ Len(input_resources) + skipped < MaxInput
    /\ \E line \in Lines :
        LET r == GetResourceFromLine(line) IN
        /\ cur_line' = line
        /\ located' = r
        /\ locPc' = IF r.tag = "panic" THEN "panic" ELSE locPc
        /\ skipped' = IF r.tag = "err" THEN skipped + 1 ELSE skipped
        /\ input_resources' =
                IF r.tag = "ok" THEN Append(input_resources, Resource(r.kind, r.id))
                ELSE input_resources
    /\ UNCHANGED <<resPc, resPos, input_tracks, warnings, resolved, selVars, rwVars, tagVars, procVars>>

\* every line was handled: collect(), line 76
LocateEnd ==
    /\ locPc = "run"
    /\ locPc' = "done"
    /\ UNCHANGED <<cur_line, located, skipped, resVars, selVars, rwVars, tagVars, procVars>>

LocateInit ==
    /\ SelectIdle
    /\ ResolveIdle
    /\ RewriteIdle
    /\ TagsIdle
    /\ ProcessIdle
    /\ locPc = "run"
    /\ cur_line = <<>>
    /\ located = NoLocation
    /\ skipped = 0

LocateNext == LocateLine \/ LocateEnd

SpecLocate == LocateInit /\ [][LocateNext]_vars

\* ------------------------------------------------------------------ claims: get_resource_from_line
\* the whole line is a form of kind followed by an id of IdLen letters and digits
InGrammar(line, kind) ==
    \E pre \in LinePrefixes(kind) :
        /\ Len(line) = Len(pre) + IdLen
        /\ \A i \in 1..Len(pre) : line[i] = pre[i]
        /\ \A i \in (Len(pre) + 1)..Len(line) : line[i] \in Alnum

CapturedId(line) == SubSeq(line, Len(line) - IdLen + 1, Len(line))

\* C8: a line yields a reference of kind K with the captured id if and only if
\* the whole line is the long or the short form of K with an id of exactly 22
\* alphanumeric characters; any other line yields the error carrying the line.
C8_GrammarExact ==
    located.tag # "none" =>
        /\ \A k \in ResourceKinds :
            InGrammar(cur_line, k)
                <=> (/\ located.tag = "ok"
                     /\ located.kind = k
                     /\ ToBase62(located.id) = CapturedId(cur_line))
        /\ (\A k \in ResourceKinds : ~InGrammar(cur_line, k))
                => (located.tag = "err" /\ located.line = cur_line)

\* the grammar itself is exact: only the decoding of a matched id can go wrong
GrammarExactUpToDecoding ==
    located.tag # "none" =>
        /\ \A k \in ResourceKinds :
            InGrammar(cur_line, k)
                <=> \/ located.tag = "panic" /\ IsResource(cur_line, k).tag = "panic"
                    \/ (/\ located.tag = "ok"
                        /\ located.kind = k
                        /\ ToBase62(located.id) = CapturedId(cur_line))
        /\ (\A k \in ResourceKinds : ~InGrammar(cur_line, k))
                => (located.tag = "err" /\ located.line = cur_line)

\* C13: every input line handled gives a reference or the unrecognized-input
\* error, and the run goes on: no line aborts the run.
C13_LocateTotal ==
    /\ locPc # "panic"
    /\ located.tag # "none" => located.tag \in {"ok", "err"}

\* ------------------------------------------------------------------ main: the processing loop
\* 0xa7, line 572
HeaderSkip == 167

DownloadSteps == {"AudioKey", "AudioFile", "TrackFile", "Decrypt", "ok"}
DecryptedLens == {0, HeaderSkip - 1, HeaderSkip, HeaderSkip + 1}
TagResults == {"Read", "Write", "Header", "ok"}
WriteResults == {"FolderCreate", "FileCreate", "FileWrite", "ok"}

\* track_download, lines 534-573: the first failing step is the error; the slice
\* [0xa7..] of a shorter decrypted buffer panics
TrackDownload(step, decrypted_len) ==
    IF step # "ok" THEN step
    ELSE IF decrypted_len < HeaderSkip THEN "panic"
    ELSE "ok"

\* parse_output_format, lines 502-514: track.artists.first().unwrap()
ParseOutputFormat(track) == IF track.artists = <<>> THEN "panic" ELSE "ok"

\* the track is done with: continue, or the end of the loop body
Finish(outcome) ==
    /\ procPc' = "next"
    /\ procPos' = procPos + 1
    /\ outcomes' = Append(outcomes, outcome)
    /\ num_completed' = IF outcome = "new" THEN num_completed + 1 ELSE num_completed
    /\ num_existing' = IF outcome = "existing" THEN num_existing + 1 ELSE num_existing

\* a panic unwinds main
Panic ==
    /\ procPc' = "panic"
    /\ UNCHANGED <<procPos, num_completed, num_existing, outcomes>>

Goto(pc) ==
    /\ procPc' = pc
    /\ UNCHANGED <<procPos, num_completed, num_existing, outcomes>>

\* line 112: the next track of the set is handed to get_track_from_id
ProcessBegin ==
    /\ procPc = "next"
    /\ procPos <= Len(input_tracks)
    /\ SelectBegin(input_tracks[procPos])
    /\ procPc' = "selecting"
    /\ UNCHANGED <<catalog, procPos, num_completed, num_existing, outcomes,
                   resVars, rwVars, tagVars, locVars>>

\* lines 112-149: get_track_from_id has returned; the output file is named and
\* looked for
ProcessSelected ==
    /\ procPc = "selecting"
    /\ selPc = "done"
    /\ selPc' = "idle"
    /\ IF ~selResult[1].ok THEN Finish("failed")
       ELSE IF ParseOutputFormat(selResult[1].track) = "panic" THEN Panic
       ELSE \E exists \in BOOLEAN : IF exists THEN Finish("existing") ELSE Goto("download")
    /\ UNCHANGED <<start_id, track_ids, catalog, selResult, fetchCount, resVars, rwVars, tagVars, locVars>>

\* lines 151-186
ProcessDownload ==
    /\ procPc = "download"
    /\ \E step \in DownloadSteps, len \in DecryptedLens :
        LET buffer == TrackDownload(step, len) IN
        IF buffer = "panic" THEN Panic
        ELSE IF buffer # "ok" THEN Finish("failed")
        ELSE Goto("tags")
    /\ UNCHANGED <<selVars, resVars, rwVars, tagVars, locVars>>

\* lines 188-216
ProcessTags ==
    /\ procPc = "tags"
    /\ \E buffer_tags \in TagResults :
        IF buffer_tags # "ok" THEN Finish("failed") ELSE Goto("write")
    /\ UNCHANGED <<selVars, resVars, rwVars, tagVars, locVars>>

\* lines 218-249
ProcessWrite ==
    /\ procPc = "write"
    /\ \E written \in WriteResults :
        IF written # "ok" THEN Finish("failed") ELSE Finish("new")
    /\ UNCHANGED <<selVars, resVars, rwVars, tagVars, locVars>>

\* lines 252-264: the loop is over, the totals are printed
ProcessEnd ==
    /\ procPc = "next"
    /\ procPos > Len(input_tracks)
    /\ procPc' = "done"
    /\ UNCHANGED <<procPos, num_completed, num_existing, outcomes,
                   selVars, resVars, rwVars, tagVars, locVars>>

\* the "error" total of line 257
NumFailed == Len(input_tracks) - num_completed - num_existing

ProcessInit ==
    /\ SelectIdle
    /\ RewriteIdle
    /\ TagsIdle
    /\ LocateIdle
    /\ resPc = "done"
    /\ input_resources = <<>>
    /\ resPos = 1
    /\ input_tracks \in {s \in SeqsUpTo(TrackIds, MaxTracks) : s # <<>> /\ NoDup(s)}
    /\ warnings = <<>>
    /\ resolved = <<>>
    /\ procPc = "next"
    /\ procPos = 1
    /\ num_completed = 0
    /\ num_existing = 0
    /\ outcomes = <<>>

ProcessNext ==
    \/ ProcessBegin
    \/ SelectFetchErr
    \/ SelectStep
    \/ SelectExhausted
    \/ ProcessSelected
    \/ ProcessDownload
    \/ ProcessTags
    \/ ProcessWrite
    \/ ProcessEnd

SpecProcess == ProcessInit /\ [][ProcessNext]_vars

\* ------------------------------------------------------------------ claims: the processing loop
Count(seq, x) == Cardinality({i \in 1..Len(seq) : seq[i] = x})

\* C9: a failure at any step for one track skips only that track: when the loop
\* has stopped, every track of the set has one outcome among new, existing and
\* failed, and new + existing + failed is the size of the set.
C9_FailureIsolation ==
    procPc \in {"done", "panic"} =>
        /\ Len(outcomes) = Len(input_tracks)
        /\ num_completed = Count(outcomes, "new")
        /\ num_existing = Count(outcomes, "existing")
        /\ NumFailed = Count(outcomes, "failed")

\* ------------------------------------------------------------------ claims: get_track_from_id
SelectOk == selPc = "done" /\ selResult[1].ok

\* the priority list of lines 479-481
Priority == <<OGG_VORBIS_320, OGG_VORBIS_160, OGG_VORBIS_96>>

Offers(id) ==
    /\ id \in DOMAIN catalog
    /\ \E k \in 1..Len(Priority) : Priority[k] \in DOMAIN catalog[id].files

KnownAlts(id) == IF id \in DOMAIN catalog THEN catalog[id].alternatives ELSE <<>>

RECURSIVE FlattenAlts(_)
FlattenAlts(level) ==
    IF level = <<>> THEN <<>> ELSE KnownAlts(Head(level)) \o FlattenAlts(Tail(level))

RECURSIVE BreadthFirst(_, _)
\* the start, then its alternatives in listed order, then theirs, ... for depth more levels
BreadthFirst(level, depth) ==
    IF depth = 0 \/ level = <<>> THEN level
    ELSE level \o BreadthFirst(FlattenAlts(level), depth - 1)

\* a first offering track is no further away than the number of other tracks
BreadthFirstOrder == BreadthFirst(<<start_id>>, Cardinality(TrackIds) - 1)

\* C1: for every alternatives graph the walk started at any id ends, with a
\* match or with an error; it never loops forever (up to the model's queue bound).
C1_WalkTerminates == <>(selPc \in {"done", "bound"})

\* C10: during one call no track id is dequeued and fetched more than once.
C10_NoRefetch == \A t \in TrackIds : fetchCount[t] <= 1

\* C5: the returned record is the first track in breadth-first order from the
\* start id that offers an encoding of the priority list: every track before it
\* in that order was fetched and offers none; when the primary record offers none
\* and its first alternative offers one, that alternative is returned and the
\* returned id differs from the requested one.
C5_FallbackOrder ==
    SelectOk =>
        LET r == selResult[1]
            order == BreadthFirstOrder
            hits == {i \in 1..Len(order) : order[i] = r.track.id}
        IN  /\ r.track = catalog[r.track.id]
            /\ Offers(r.track.id)
            /\ hits # {}
            /\ \E i \in hits :
                /\ \A j \in hits : i <= j
                /\ \A j \in 1..(i - 1) : order[j] \in DOMAIN catalog /\ ~Offers(order[j])
            /\ \A alt \in TrackIds :
                (/\ ~Offers(start_id)
                 /\ KnownAlts(start_id) # <<>>
                 /\ KnownAlts(start_id)[1] = alt
                 /\ Offers(alt))
                => (r.track.id = alt /\ r.track.id # start_id /\ r.file_id[1] = alt)

C5_Witness ==
    /\ SelectOk
    /\ ~Offers(start_id)
    /\ Len(KnownAlts(start_id)) = 2
    /\ selResult[1].track.id = KnownAlts(start_id)[1]
    /\ selResult[1].track.id # start_id

\* C6: the returned file id is the one the returned record maps to the first tag
\* of the priority list present in its encodings; no lower tag's file is returned
\* when a higher tag is present, and no encoding outside the list is selected.
C6_EncodingPriority ==
    SelectOk =>
        LET r == selResult[1] IN
        \E k \in 1..Len(Priority) :
            /\ Priority[k] \in DOMAIN r.track.files
            /\ r.file_id = r.track.files[Priority[k]]
            /\ \A j \in 1..(k - 1) : Priority[j] \notin DOMAIN r.track.files

C6_Witness ==
    /\ SelectOk
    /\ DOMAIN selResult[1].track.files = {OGG_VORBIS_160, OGG_VORBIS_96, MP3_320}
    /\ selResult[1].file_id = FileIdOf(selResult[1].track.id, OGG_VORBIS_160)

====
